---- MODULE Spec2Model ----
(***************************************************************************)
(* Swarm decision making over a message bus.                               *)
(*                                                                         *)
(* Two deployments of the voting round are modelled:                       *)
(*   variant = "self" : src/robot.py, every robot counts the "ready"       *)
(*                      broadcasts itself (self-counted barrier);          *)
(*   variant = "sync" : src/robot_sync.py with the barrier service of      *)
(*                      src/barrier.py (coordinated barrier).              *)
(* The bus is RabbitMQ as the code uses it: a fanout exchange copies a     *)
(* published message to every queue bound at publish time, a queue is      *)
(* FIFO, a consumer's callback handles the head of its queue and           *)
(* acknowledges it, and a delivery may be repeated (at-least-once).        *)
(***************************************************************************)
EXTENDS Naturals, Integers, Sequences, FiniteSets, TLC

\* ---------------------------------------------------------------- bounds
\* The swarm sizes a round is started with (--swarm-size); a round of size n
\* runs n robots, each given n.
SwarmSizes == {1, 2}
\* Number of legal proposal values (POSSIBLE_PROPOSALS), in sort order.
NumProposals == 2
\* Cap on the iterations of the readiness loop of robot.py a robot runs.
MaxReadyPub == 2
\* Cap on the number of repeated deliveries the bus makes in one round.
MaxDup == 1
\* Length of the longest list of proposals _process_results is applied to on
\* its own, and the number of distinct values such a list draws from.
MaxTallyLen == 5
NumTallyValues == 3
\* Cap on the number of malformed messages published to the bus in one round.
MaxInject == 1
\* Cap on the number of "ready" messages a prior round left on READINESS_QUEUE.
MaxResidue == 2

\* Proposal values are numbered in the order Python sorts the strings.
Proposals == 1..NumProposals
\* Python's None (an absent field, an unset decision).
None == 0

VARIABLES
    variant,                \* which deployment runs: "self" or "sync"
    swarm_size,             \* self.swarm_size / barrier.swarm_size
    proposal,               \* self.proposal of each robot
    residue,                \* what a prior round left on READINESS_QUEUE (durable)
    pc,                     \* position of each robot in run_vote
    ready_robots,           \* self.ready_robots (robot.py)
    received_proposals,     \* self.received_proposals
    received_from,          \* sender_id of each appended proposal (the handler's local)
    final_decision,         \* self.final_decision
    start_signal_received,  \* self.start_signal_received (robot_sync.py)
    queue,                  \* each robot's exclusive queue on the proposal exchange
    bound,                  \* whether that queue is bound to the exchange
    start_queue,            \* each robot's exclusive queue on START_EXCHANGE
    start_bound,            \* whether that queue is bound
    readiness_queue,        \* READINESS_QUEUE (durable, shared)
    barrier_pc,             \* position of the barrier service in main
    barrier_ready_robots,   \* barrier.ready_robots
    start_signal_sent,      \* barrier.start_signal_sent
    ready_pubs,             \* number of "ready" messages each robot has published
    prop_pubs,              \* number of "proposal" messages each robot has published
    begin_pubs,             \* number of "start_voting" broadcasts of the barrier
    dropped,                \* proposals of each sender a robot acknowledged without storing
    dups,                   \* repeated deliveries made so far
    ready_seen,             \* senders of the "ready" messages each robot's _on_ready handled
    barrier_seen,           \* senders of the "ready" messages on_ready_message handled
    injected,               \* malformed messages published to the bus so far
    ack_faults,             \* processes (None: the barrier) one of whose handler
                            \* invocations did not acknowledge its delivery exactly once
    tally_input,            \* a list of proposals _process_results is applied to on its own
    tally_result,           \* the final_decision that application set
    tally_state             \* "idle", "returned", "raised" (RuntimeError) or "crashed"

\* The robots of the round: one process per unit of the swarm size.
Robots == 1..swarm_size

vars == <<variant, swarm_size, proposal, residue, pc, ready_robots, received_proposals,
          received_from, final_decision, start_signal_received, queue, bound,
          start_queue, start_bound, readiness_queue, barrier_pc,
          barrier_ready_robots, start_signal_sent, ready_pubs, prop_pubs,
          begin_pubs, dropped, dups, ready_seen, barrier_seen,
          injected, ack_faults,
          tally_input, tally_result, tally_state>>

robotVars == <<pc, ready_robots, received_proposals, received_from,
               final_decision, start_signal_received>>
barrierVars == <<barrier_pc, barrier_ready_robots, start_signal_sent, begin_pubs>>
configVars == <<variant, swarm_size, proposal, residue>>
seenVars == <<ready_seen, barrier_seen>>
tallyVars == <<tally_input, tally_result, tally_state>>
busVars == <<queue, bound, start_queue, start_bound, readiness_queue>>
ghostVars == <<ready_pubs, prop_pubs, dropped, dups>>

\* ------------------------------------------------------------- messages
ReadyMsg(r) == [type |-> "ready", robot_id |-> r, proposal |-> None]
\* Mutant of ProposalMsg: the proposal is published without the sender.
ProposalMsg_Anonymous(r, p) == [type |-> "proposal", robot_id |-> None, proposal |-> p]
ProposalMsg(r, p) == [type |-> "proposal", robot_id |-> r, proposal |-> p]
StartMsg == [type |-> "start_voting", robot_id |-> None, proposal |-> None]

\* A body json.loads cannot decode, or that does not decode to an object.
Undecodable == [type |-> "undecodable", robot_id |-> None, proposal |-> None]
\* Decodable bodies with a required field missing or an unknown type.
Malformed ==
    {Undecodable,
     [type |-> "ready", robot_id |-> None, proposal |-> None],
     [type |-> "unknown", robot_id |-> None, proposal |-> None]}
    \cup {[type |-> "proposal", robot_id |-> None, proposal |-> p] : p \in Proposals}
    \cup {[type |-> "proposal", robot_id |-> q, proposal |-> None] : q \in Robots}

Range(s) == {s[i] : i \in DOMAIN s}

\* Mutant of Fanout: the exchange does not copy a message to its sender's queue.
Fanout_NotToSender(q, bnd, m) ==
    [r \in Robots |-> IF bnd[r] /\ r # m.robot_id THEN Append(q[r], m) ELSE q[r]]

\* basic_publish to a fanout exchange: one copy to every bound queue.
Fanout(q, bnd, m) == [r \in Robots |-> IF bnd[r] THEN Append(q[r], m) ELSE q[r]]

\* ------------------------------------------------------------ vote tally
Count(s, v) == Cardinality({i \in DOMAIN s : s[i] = v})
\* collections.Counter(received_proposals): the counts ...
VoteCounts(s) == [v \in Range(s) |-> Count(s, v)]

\* ... and the keys, which a Counter keeps in the order of first insertion.
RECURSIVE CounterKeys(_)
CounterKeys(s) ==
    IF s = <<>>
    THEN <<>>
    ELSE LET k == CounterKeys(SubSeq(s, 1, Len(s) - 1))
             v == s[Len(s)]
         IN IF v \in Range(k) THEN k ELSE Append(k, v)

\* max(vote_counts.values())
MaxVotes(s) == CHOOSE n \in Range(VoteCounts(s)) : \A k \in Range(VoteCounts(s)) : k <= n

\* Mutant of Winners: every value that can be proposed is taken as a winner,
\* whether it was collected or not.
Winners_Candidates(s) == [i \in 1..NumProposals |-> i]

\* The list comprehension over vote_counts.items(): the keys with max_votes,
\* in the order of the Counter.
Winners(s) == SelectSeq(CounterKeys(s), LAMBDA v : VoteCounts(s)[v] = MaxVotes(s))

\* list.sort(): ascending order.
RECURSIVE Sorted(_)
Sorted(w) ==
    IF w = <<>>
    THEN <<>>
    ELSE LET i == CHOOSE i \in DOMAIN w : \A j \in DOMAIN w : w[i] <= w[j]
         IN <<w[i]>> \o Sorted(SubSeq(w, 1, i - 1) \o SubSeq(w, i + 1, Len(w)))

\* Mutant of SortedFirst: the last element of the sorted list is taken.
SortedFirst_Last(w) == Sorted(w)[Len(w)]

\* winners.sort(); winners[0]
SortedFirst(w) == Sorted(w)[1]

\* Mutant of Tally: the tie is not sorted, the first winner is taken.
Tally_FirstWinner(s) == Winners(s)[1]

\* _process_results, lines 111-118: the single winner, or the first of the
\* sorted winners on a tie.
Tally(s) ==
    IF Len(Winners(s)) = 1
    THEN Winners(s)[1]
    ELSE SortedFirst(Winners(s))

\* ------------------------------------------------------------------ Init
Init ==
    /\ variant \in {"self", "sync"}
    /\ swarm_size \in SwarmSizes
    /\ proposal \in [Robots -> Proposals]
    /\ residue = <<>>
    /\ pc = [r \in Robots |-> "init"]
    /\ ready_robots = [r \in Robots |-> {}]
    /\ received_proposals = [r \in Robots |-> <<>>]
    /\ received_from = [r \in Robots |-> <<>>]
    /\ final_decision = [r \in Robots |-> None]
    /\ start_signal_received = [r \in Robots |-> FALSE]
    /\ queue = [r \in Robots |-> <<>>]
    /\ bound = [r \in Robots |-> FALSE]
    /\ start_queue = [r \in Robots |-> <<>>]
    /\ start_bound = [r \in Robots |-> FALSE]
    /\ readiness_queue = <<>>
    /\ barrier_pc = "init"
    /\ barrier_ready_robots = {}
    /\ start_signal_sent = FALSE
    /\ ready_pubs = [r \in Robots |-> 0]
    /\ prop_pubs = [r \in Robots |-> 0]
    /\ begin_pubs = 0
    /\ dropped = [r \in Robots |-> {}]
    /\ dups = 0
    /\ ready_seen = [r \in Robots |-> {}]
    /\ barrier_seen = {}
    /\ injected = 0
    /\ ack_faults = {}
    /\ tally_input = <<>>
    /\ tally_result = None
    /\ tally_state = "idle"

\* ------------------------------------------------ robot.py (self-counted)
\* Mutant of ReadyAdd: the message type is not looked at.
ReadyAdd_AnyType(set, m) == set \cup {m.robot_id}

\* _on_ready, lines 42-44: a "ready" adds its sender unless already present.
ReadyAdd(set, m) ==
    IF m.type = "ready" /\ m.robot_id \notin set
    THEN set \cup {m.robot_id}
    ELSE set

\* Mutant of AllReady: the comparison is off by one.
AllReady_OffByOne(set, n) == Cardinality(set) >= n - 1

\* _on_ready, line 52: all robots are accounted for.
AllReady(set, n) == Cardinality(set) = n

\* Mutant of StoreProposal: the message type is not looked at.
StoreProposal_AnyType(rp, m) == Append(rp, m.proposal)

\* _on_message_callback, lines 63-69: a truthy proposal is appended.
StoreProposal(rp, m) ==
    IF m.type = "proposal" /\ m.proposal # None
    THEN Append(rp, m.proposal)
    ELSE rp

\* Mutant of AllProposals: the comparison never stops the collection at n.
AllProposals_Beyond(rp, n) == Len(rp) > n

\* _on_message_callback, line 74: all expected proposals are in.
AllProposals(rp, n) == Len(rp) = n

\* Mutant of CannotDecide: the guard is missing.
CannotDecide_Never(rp, n) == FALSE

\* _process_results, line 97: only an empty list is refused.
CannotDecide(rp, n) == rp = <<>>

\* _process_results, line 107: max() of an empty sequence raises ValueError,
\* which ends run_vote at line 216 without a decision.
MaxRaises(rp) == rp = <<>>

\* run_vote, lines 127-156: connect, declare and bind the exclusive queue,
\* register _on_ready.
Bind(r) ==
    /\ variant = "self"
    /\ pc[r] = "init"
    /\ bound' = [bound EXCEPT ![r] = TRUE]
    /\ pc' = [pc EXCEPT ![r] = "ready_sync"]
    /\ UNCHANGED <<configVars, tallyVars, injected, ack_faults, ready_robots, received_proposals, received_from,
                   final_decision, start_signal_received, queue, start_queue,
                   start_bound, readiness_queue, barrierVars, ready_pubs,
                   prop_pubs, dropped, dups, seenVars>>

\* run_vote, lines 163-168: one iteration of the readiness loop publishes "ready".
PublishReady(r) ==
    /\ variant = "self"
    /\ pc[r] = "ready_sync"
    /\ Cardinality(ready_robots[r]) < swarm_size
    /\ ready_pubs[r] < MaxReadyPub
    /\ queue' = Fanout(queue, bound, ReadyMsg(r))
    /\ ready_pubs' = [ready_pubs EXCEPT ![r] = @ + 1]
    /\ UNCHANGED <<configVars, tallyVars, injected, ack_faults, robotVars, bound, start_queue, start_bound,
                   readiness_queue, barrierVars, prop_pubs, dropped, dups, seenVars>>

\* _on_ready, line 38: json.loads (or message.get) raises on such a body.
DecodeRaises(m) == m.type = "undecodable"

\* _on_ready has no try: the basic_ack of line 49 is reached only if line 38
\* did not raise.
OnReadyAcks(m) == IF DecodeRaises(m) THEN 0 ELSE 1

\* _on_message_callback acknowledges once on each of its paths (lines 84, 87, 91).
CallbackAcks(m) == 1

\* _on_ready, dispatched by process_data_events (line 170) on the head of the
\* robot's queue; on the full set stop_consuming ends the readiness loop. An
\* exception of the handler leaves process_data_events and ends run_vote at
\* line 216.
OnReady(r) ==
    /\ variant = "self"
    /\ pc[r] = "ready_sync"
    /\ ready_pubs[r] > 0
    /\ queue[r] # <<>>
    /\ LET m == Head(queue[r])
           rr == ReadyAdd(ready_robots[r], m)
       IN /\ IF DecodeRaises(m)
             THEN /\ pc' = [pc EXCEPT ![r] = "crashed"]
                  /\ UNCHANGED <<ready_robots, ready_seen, dropped>>
             ELSE /\ ready_robots' = [ready_robots EXCEPT ![r] = rr]
                  /\ ready_seen' = [ready_seen EXCEPT ![r] =
                            IF m.type = "ready" THEN @ \cup {m.robot_id} ELSE @]
                  /\ dropped' = [dropped EXCEPT ![r] =
                            IF m.type = "proposal" THEN @ \cup {m.robot_id} ELSE @]
                  /\ pc' = [pc EXCEPT ![r] =
                            IF AllReady(rr, swarm_size) THEN "exchange" ELSE "ready_sync"]
          /\ ack_faults' = IF OnReadyAcks(m) = 1 THEN ack_faults ELSE ack_faults \cup {r}
    /\ queue' = [queue EXCEPT ![r] = Tail(@)]
    /\ UNCHANGED <<configVars, tallyVars, injected, received_proposals,
                   received_from, final_decision, start_signal_received, bound,
                   start_queue, start_bound, readiness_queue, barrierVars,
                   ready_pubs, prop_pubs, dups, barrier_seen>>

\* run_vote, lines 174-200: register _on_message_callback and publish the proposal.
PublishProposal(r) ==
    /\ variant = "self"
    /\ pc[r] = "exchange"
    /\ queue' = Fanout(queue, bound, ProposalMsg(r, proposal[r]))
    /\ prop_pubs' = [prop_pubs EXCEPT ![r] = @ + 1]
    /\ pc' = [pc EXCEPT ![r] = "collect"]
    /\ UNCHANGED <<configVars, tallyVars, injected, ack_faults, ready_robots, received_proposals, received_from,
                   final_decision, start_signal_received, bound, start_queue,
                   start_bound, readiness_queue, barrierVars, ready_pubs,
                   dropped, dups, seenVars>>

\* _on_message_callback, dispatched by start_consuming (line 205).
OnMessageCallback(r) ==
    /\ variant = "self"
    /\ pc[r] = "collect"
    /\ queue[r] # <<>>
    /\ LET m == Head(queue[r])
           rp == StoreProposal(received_proposals[r], m)
       IN /\ received_proposals' = [received_proposals EXCEPT ![r] = rp]
          /\ received_from' = [received_from EXCEPT ![r] =
                            IF rp # received_proposals[r] THEN Append(@, m.robot_id) ELSE @]
          /\ dropped' = [dropped EXCEPT ![r] =
                            IF m.type = "proposal" /\ rp = received_proposals[r]
                            THEN @ \cup {m.robot_id} ELSE @]
          /\ pc' = [pc EXCEPT ![r] =
                            IF m.type = "proposal" /\ AllProposals(rp, swarm_size)
                            THEN "tally" ELSE "collect"]
          /\ ack_faults' = IF CallbackAcks(m) = 1 THEN ack_faults ELSE ack_faults \cup {r}
    /\ queue' = [queue EXCEPT ![r] = Tail(@)]
    /\ UNCHANGED <<configVars, tallyVars, injected, ready_robots, final_decision, start_signal_received,
                   bound, start_queue, start_bound, readiness_queue, barrierVars,
                   ready_pubs, prop_pubs, dups, seenVars>>

\* _process_results, called at line 207 once start_consuming has returned.
ProcessResults(r) ==
    /\ variant = "self"
    /\ pc[r] = "tally"
    /\ IF CannotDecide(received_proposals[r], swarm_size)
       THEN /\ pc' = [pc EXCEPT ![r] = "aborted"]
            /\ UNCHANGED final_decision
       ELSE IF MaxRaises(received_proposals[r])
       THEN /\ pc' = [pc EXCEPT ![r] = "crashed"]
            /\ UNCHANGED final_decision
       ELSE /\ final_decision' = [final_decision EXCEPT ![r] = Tally(received_proposals[r])]
            /\ pc' = [pc EXCEPT ![r] = "decided"]
    /\ UNCHANGED <<configVars, tallyVars, injected, ack_faults, ready_robots, received_proposals, received_from,
                   start_signal_received, queue, bound, start_queue, start_bound,
                   readiness_queue, barrierVars, ready_pubs, prop_pubs, dropped, dups, seenVars>>

\* --------------------------------------------- robot_sync.py (coordinated)
\* _on_proposal_message_callback, lines 69-73: a proposal with a sender and a
\* value is appended while fewer than swarm_size are stored.
SyncStoreProposal(rp, m, n) ==
    IF m.robot_id # None /\ m.type = "proposal" /\ m.proposal # None /\ Len(rp) < n
    THEN Append(rp, m.proposal)
    ELSE rp

\* The handlers of robot_sync.py acknowledge once on each of their paths
\* (lines 52, 54, 57 and 83, 85, 88).
SyncCallbackAcks(m) == 1

\* _process_results, line 95: fewer than swarm_size proposals are refused.
SyncCannotDecide(rp, n) == rp = <<>> \/ Len(rp) < n

\* run_vote, lines 121-144: connect, bind the start queue, register
\* _on_start_signal_callback.
SyncBindStart(r) ==
    /\ variant = "sync"
    /\ pc[r] = "init"
    /\ start_bound' = [start_bound EXCEPT ![r] = TRUE]
    /\ pc' = [pc EXCEPT ![r] = "start_bound"]
    /\ UNCHANGED <<configVars, tallyVars, injected, ack_faults, ready_robots, received_proposals, received_from,
                   final_decision, start_signal_received, queue, bound, start_queue,
                   readiness_queue, barrierVars, ready_pubs, prop_pubs, dropped, dups, seenVars>>

\* run_vote, lines 147-163: send the readiness signal and wait for the start.
SyncSendReady(r) ==
    /\ variant = "sync"
    /\ pc[r] = "start_bound"
    /\ readiness_queue' = Append(readiness_queue, ReadyMsg(r))
    /\ ready_pubs' = [ready_pubs EXCEPT ![r] = @ + 1]
    /\ pc' = [pc EXCEPT ![r] = "wait_start"]
    /\ UNCHANGED <<configVars, tallyVars, injected, ack_faults, ready_robots, received_proposals, received_from,
                   final_decision, start_signal_received, queue, bound, start_queue,
                   start_bound, barrierVars, prop_pubs, dropped, dups, seenVars>>

\* Mutant of IsStartSignal: the message type is not looked at.
IsStartSignal_AnyMessage(m) == TRUE

\* _on_start_signal_callback, line 44.
IsStartSignal(m) == m.type = "start_voting"

\* _on_start_signal_callback, dispatched by start_consuming (line 163).
OnStartSignalCallback(r) ==
    /\ variant = "sync"
    /\ pc[r] = "wait_start"
    /\ start_queue[r] # <<>>
    /\ LET m == Head(start_queue[r])
       IN IF IsStartSignal(m)
          THEN /\ start_signal_received' = [start_signal_received EXCEPT ![r] = TRUE]
               /\ pc' = [pc EXCEPT ![r] = "after_wait"]
          ELSE UNCHANGED <<start_signal_received, pc>>
    /\ ack_faults' = IF SyncCallbackAcks(Head(start_queue[r])) = 1
                     THEN ack_faults ELSE ack_faults \cup {r}
    /\ start_queue' = [start_queue EXCEPT ![r] = Tail(@)]
    /\ UNCHANGED <<configVars, tallyVars, injected, ready_robots, received_proposals, received_from,
                   final_decision, queue, bound, start_bound, readiness_queue,
                   barrierVars, ready_pubs, prop_pubs, dropped, dups, seenVars>>

\* run_vote, lines 166-184: abort without the start signal, else bind the
\* proposal queue and register _on_proposal_message_callback.
SyncBindProposal(r) ==
    /\ variant = "sync"
    /\ pc[r] = "after_wait"
    /\ IF ~start_signal_received[r]
       THEN /\ pc' = [pc EXCEPT ![r] = "aborted"]
            /\ UNCHANGED bound
       ELSE /\ bound' = [bound EXCEPT ![r] = TRUE]
            /\ pc' = [pc EXCEPT ![r] = "exchange"]
    /\ UNCHANGED <<configVars, tallyVars, injected, ack_faults, ready_robots, received_proposals, received_from,
                   final_decision, start_signal_received, queue, start_queue,
                   start_bound, readiness_queue, barrierVars, ready_pubs, prop_pubs,
                   dropped, dups, seenVars>>

\* run_vote, lines 187-204: publish the proposal and start consuming.
SyncPublishProposal(r) ==
    /\ variant = "sync"
    /\ pc[r] = "exchange"
    /\ queue' = Fanout(queue, bound, ProposalMsg(r, proposal[r]))
    /\ prop_pubs' = [prop_pubs EXCEPT ![r] = @ + 1]
    /\ pc' = [pc EXCEPT ![r] = "collect"]
    /\ UNCHANGED <<configVars, tallyVars, injected, ack_faults, ready_robots, received_proposals, received_from,
                   final_decision, start_signal_received, bound, start_queue,
                   start_bound, readiness_queue, barrierVars, ready_pubs,
                   dropped, dups, seenVars>>

\* _on_proposal_message_callback, dispatched by start_consuming (line 204).
OnProposalMessageCallback(r) ==
    /\ variant = "sync"
    /\ pc[r] = "collect"
    /\ queue[r] # <<>>
    /\ LET m == Head(queue[r])
           rp == SyncStoreProposal(received_proposals[r], m, swarm_size)
       IN /\ received_proposals' = [received_proposals EXCEPT ![r] = rp]
          /\ received_from' = [received_from EXCEPT ![r] =
                            IF rp # received_proposals[r] THEN Append(@, m.robot_id) ELSE @]
          /\ dropped' = [dropped EXCEPT ![r] =
                            IF m.type = "proposal" /\ rp = received_proposals[r]
                            THEN @ \cup {m.robot_id} ELSE @]
          /\ pc' = [pc EXCEPT ![r] =
                            IF m.robot_id # None /\ m.type = "proposal"
                               /\ AllProposals(rp, swarm_size)
                            THEN "tally" ELSE "collect"]
          /\ ack_faults' = IF SyncCallbackAcks(m) = 1 THEN ack_faults ELSE ack_faults \cup {r}
    /\ queue' = [queue EXCEPT ![r] = Tail(@)]
    /\ UNCHANGED <<configVars, tallyVars, injected, ready_robots, final_decision, start_signal_received,
                   bound, start_queue, start_bound, readiness_queue, barrierVars,
                   ready_pubs, prop_pubs, dups, seenVars>>

\* _process_results, called at line 207 once start_consuming has returned.
SyncProcessResults(r) ==
    /\ variant = "sync"
    /\ pc[r] = "tally"
    /\ IF SyncCannotDecide(received_proposals[r], swarm_size)
       THEN /\ pc' = [pc EXCEPT ![r] = "aborted"]
            /\ UNCHANGED final_decision
       ELSE IF MaxRaises(received_proposals[r])
       THEN /\ pc' = [pc EXCEPT ![r] = "crashed"]
            /\ UNCHANGED final_decision
       ELSE /\ final_decision' = [final_decision EXCEPT ![r] = Tally(received_proposals[r])]
            /\ pc' = [pc EXCEPT ![r] = "decided"]
    /\ UNCHANGED <<configVars, tallyVars, injected, ack_faults, ready_robots, received_proposals, received_from,
                   start_signal_received, queue, bound, start_queue, start_bound,
                   readiness_queue, barrierVars, ready_pubs, prop_pubs, dropped, dups, seenVars>>

\* ------------------------------------------------- barrier.py (coordinator)
\* on_ready_message, lines 35-39: a "ready" with a sender adds it unless present.
BarrierReadyAdd(set, m) ==
    IF m.robot_id # None /\ m.type = "ready" /\ m.robot_id \notin set
    THEN set \cup {m.robot_id}
    ELSE set

\* Mutant of LateSignal: the early return is missing.
LateSignal_NotIgnored(sent) == FALSE

\* on_ready_message, lines 24-26: after the start signal every delivery is
\* acknowledged and otherwise ignored.
LateSignal(sent) == sent

\* on_ready_message acknowledges once on each of its paths (lines 25, 65, 67, 70).
BarrierAcks(m) == 1

\* Mutant of BarrierAllReady: the comparison is off by one.
BarrierAllReady_OffByOne(set, n) == Cardinality(set) >= n - 1

\* on_ready_message, line 43: all robots are ready.
BarrierAllReady(set, n) == Cardinality(set) = n

\* Mutant of Purged: the queue is not purged.
Purged_Kept(q) == q

\* main, line 99: queue_purge empties the readiness queue.
Purged(q) == <<>>

\* main, lines 77-110: reset the state, declare and purge the readiness queue,
\* start consuming.
BarrierMain ==
    /\ variant = "sync"
    /\ barrier_pc = "init"
    /\ start_signal_sent' = FALSE
    /\ barrier_ready_robots' = {}
    /\ readiness_queue' = Purged(readiness_queue)
    /\ barrier_pc' = "consuming"
    /\ UNCHANGED <<configVars, tallyVars, injected, ack_faults, robotVars, queue, bound, start_queue, start_bound,
                   ready_pubs, prop_pubs, begin_pubs, dropped, dups, seenVars>>

\* on_ready_message, dispatched by start_consuming (line 110) on the head of
\* the readiness queue.
OnReadyMessage ==
    /\ variant = "sync"
    /\ barrier_pc = "consuming"
    /\ readiness_queue # <<>>
    /\ LET m == Head(readiness_queue)
           rr == BarrierReadyAdd(barrier_ready_robots, m)
       IN IF LateSignal(start_signal_sent)
          THEN UNCHANGED <<barrier_ready_robots, start_signal_sent, begin_pubs,
                           barrier_pc, start_queue, barrier_seen>>
          ELSE /\ barrier_ready_robots' = rr
               /\ barrier_seen' = IF m.type = "ready" /\ m.robot_id # None
                                  THEN barrier_seen \cup {m.robot_id}
                                  ELSE barrier_seen
               /\ IF m.robot_id # None /\ m.type = "ready"
                     /\ BarrierAllReady(rr, swarm_size)
                  THEN /\ start_queue' = Fanout(start_queue, start_bound, StartMsg)
                       /\ start_signal_sent' = TRUE
                       /\ begin_pubs' = begin_pubs + 1
                       /\ barrier_pc' = "stopped"
                  ELSE UNCHANGED <<start_queue, start_signal_sent, begin_pubs, barrier_pc>>
    /\ ack_faults' = IF BarrierAcks(Head(readiness_queue)) = 1
                     THEN ack_faults ELSE ack_faults \cup {None}
    /\ readiness_queue' = Tail(readiness_queue)
    /\ UNCHANGED <<configVars, tallyVars, injected, robotVars, queue, bound, start_bound, ready_pubs,
                   prop_pubs, dropped, dups, ready_seen>>

\* ------------------------------------------------------------ the bus
\* At-least-once delivery: the message at the head of a queue is delivered
\* once more (the broker requeues a redelivered message at the head).
Redeliver(q) == <<Head(q)>> \o q

DuplicateProposalQueue(r) ==
    /\ dups < MaxDup
    /\ queue[r] # <<>>
    /\ queue' = [queue EXCEPT ![r] = Redeliver(@)]
    /\ dups' = dups + 1
    /\ UNCHANGED <<configVars, tallyVars, injected, ack_faults, robotVars, bound, start_queue, start_bound,
                   readiness_queue, barrierVars, ready_pubs, prop_pubs, dropped, seenVars>>

DuplicateStartQueue(r) ==
    /\ dups < MaxDup
    /\ start_queue[r] # <<>>
    /\ start_queue' = [start_queue EXCEPT ![r] = Redeliver(@)]
    /\ dups' = dups + 1
    /\ UNCHANGED <<configVars, tallyVars, injected, ack_faults, robotVars, queue, bound, start_bound,
                   readiness_queue, barrierVars, ready_pubs, prop_pubs, dropped, seenVars>>

DuplicateReadinessQueue ==
    /\ dups < MaxDup
    /\ readiness_queue # <<>>
    /\ readiness_queue' = Redeliver(readiness_queue)
    /\ dups' = dups + 1
    /\ UNCHANGED <<configVars, tallyVars, injected, ack_faults, robotVars, queue, bound, start_queue, start_bound,
                   barrierVars, ready_pubs, prop_pubs, dropped, seenVars>>

\* Mutant of ConsumerCancelled: a robot whose consumer is cancelled starts the
\* round again.
ConsumerCancelled_Restart(r) ==
    /\ pc[r] \in {"collect", "wait_start"}
    /\ pc' = [pc EXCEPT ![r] = "init"]
    /\ UNCHANGED <<configVars, tallyVars, seenVars, barrierVars, busVars, ghostVars,
                   injected, ack_faults, ready_robots, received_proposals,
                   received_from, final_decision, start_signal_received>>

\* The broker cancels the robot's consumer while it blocks in start_consuming
\* (robot.py line 205, robot_sync.py lines 163 and 204): start_consuming returns.
ConsumerCancelled(r) ==
    /\ pc[r] \in {"collect", "wait_start"}
    /\ pc' = [pc EXCEPT ![r] = IF pc[r] = "collect" THEN "tally" ELSE "after_wait"]
    /\ UNCHANGED <<configVars, tallyVars, injected, ack_faults, ready_robots, received_proposals, received_from,
                   final_decision, start_signal_received, queue, bound, start_queue,
                   start_bound, readiness_queue, barrierVars, ready_pubs, prop_pubs,
                   dropped, dups, seenVars>>

\* ------------------------------------------------------- specifications
SelfNext(r) ==
    \/ Bind(r)
    \/ PublishReady(r)
    \/ OnReady(r)
    \/ PublishProposal(r)
    \/ OnMessageCallback(r)
    \/ ProcessResults(r)

SyncNext(r) ==
    \/ SyncBindStart(r)
    \/ SyncSendReady(r)
    \/ OnStartSignalCallback(r)
    \/ SyncBindProposal(r)
    \/ SyncPublishProposal(r)
    \/ OnProposalMessageCallback(r)
    \/ SyncProcessResults(r)

BarrierNext ==
    \/ BarrierMain
    \/ OnReadyMessage

DuplicateNext ==
    \/ \E r \in Robots : DuplicateProposalQueue(r)
    \/ \E r \in Robots : DuplicateStartQueue(r)
    \/ DuplicateReadinessQueue

\* The round on a bus that delivers every message exactly once; only the
\* interleaving of the processes varies.
NextOrder ==
    \/ \E r \in Robots : SelfNext(r)
    \/ \E r \in Robots : SyncNext(r)
    \/ BarrierNext

SpecOrder == Init /\ [][NextOrder]_vars

\* The round on a bus that reorders across publishers and repeats deliveries.
NextDelivery ==
    \/ NextOrder
    \/ DuplicateNext

SpecDelivery == Init /\ [][NextDelivery]_vars

\* The same, and the broker may also end a robot's blocking wait.
Next ==
    \/ NextDelivery
    \/ \E r \in Robots : ConsumerCancelled(r)

Spec == Init /\ [][Next]_vars

\* Any client of the broker may publish to the exchanges and to the
\* readiness queue: a malformed message reaches every queue bound to the
\* proposal exchange, ...
InjectExchange(m) ==
    /\ injected < MaxInject
    /\ \E r \in Robots : bound[r]
    /\ queue' = Fanout(queue, bound, m)
    /\ injected' = injected + 1
    /\ UNCHANGED <<configVars, tallyVars, ack_faults, robotVars, bound, start_queue,
                   start_bound, readiness_queue, barrierVars, ghostVars, seenVars>>

\* ... or every queue bound to START_EXCHANGE (robot_sync.py), ...
InjectStart(m) ==
    /\ variant = "sync"
    /\ injected < MaxInject
    /\ \E r \in Robots : start_bound[r]
    /\ start_queue' = Fanout(start_queue, start_bound, m)
    /\ injected' = injected + 1
    /\ UNCHANGED <<configVars, tallyVars, ack_faults, robotVars, queue, bound,
                   start_bound, readiness_queue, barrierVars, ghostVars, seenVars>>

\* ... or READINESS_QUEUE (barrier.py).
InjectReadiness(m) ==
    /\ variant = "sync"
    /\ injected < MaxInject
    /\ readiness_queue' = Append(readiness_queue, m)
    /\ injected' = injected + 1
    /\ UNCHANGED <<configVars, tallyVars, ack_faults, robotVars, queue, bound,
                   start_queue, start_bound, barrierVars, ghostVars, seenVars>>

InjectNext ==
    \/ \E m \in Malformed : InjectExchange(m)
    \/ \E m \in Malformed : InjectStart(m)
    \/ \E m \in Malformed : InjectReadiness(m)

\* The round on a bus that delivers every message exactly once and also
\* carries malformed messages.
NextFaults ==
    \/ NextOrder
    \/ InjectNext

SpecFaults == Init /\ [][NextFaults]_vars

\* A "ready" strays onto PROPOSAL_EXCHANGE of robot_sync.py, where the robots
\* themselves publish proposals only (in robot.py the readiness loop leaves
\* such messages behind by itself).
StrayReady(q) ==
    /\ variant = "sync"
    /\ injected < MaxInject
    /\ \E r \in Robots : bound[r]
    /\ queue' = Fanout(queue, bound, ReadyMsg(q))
    /\ injected' = injected + 1
    /\ UNCHANGED <<configVars, tallyVars, ack_faults, robotVars, bound, start_queue,
                   start_bound, readiness_queue, barrierVars, ghostVars, seenVars>>

\* The round on a bus that delivers every message exactly once, with stale
\* "ready" messages in the proposal queues of both variants.
NextStaleReady ==
    \/ NextOrder
    \/ \E q \in Robots : StrayReady(q)

SpecStaleReady == Init /\ [][NextStaleReady]_vars

\* ------------------------------------- a round after a prior round
\* READINESS_QUEUE is durable: the coordinated round starts with the "ready"
\* messages a prior round of the same robots left on it.
Residues == UNION {[1..n -> {ReadyMsg(q) : q \in Robots}] : n \in 1..MaxResidue}

InitResidue ==
    /\ variant = "sync"
    /\ swarm_size \in SwarmSizes
    /\ proposal \in [Robots -> Proposals]
    /\ residue \in Residues
    /\ pc = [r \in Robots |-> "init"]
    /\ ready_robots = [r \in Robots |-> {}]
    /\ received_proposals = [r \in Robots |-> <<>>]
    /\ received_from = [r \in Robots |-> <<>>]
    /\ final_decision = [r \in Robots |-> None]
    /\ start_signal_received = [r \in Robots |-> FALSE]
    /\ queue = [r \in Robots |-> <<>>]
    /\ bound = [r \in Robots |-> FALSE]
    /\ start_queue = [r \in Robots |-> <<>>]
    /\ start_bound = [r \in Robots |-> FALSE]
    /\ readiness_queue = residue
    /\ barrier_pc = "init"
    /\ barrier_ready_robots = {}
    /\ start_signal_sent = FALSE
    /\ ready_pubs = [r \in Robots |-> 0]
    /\ prop_pubs = [r \in Robots |-> 0]
    /\ begin_pubs = 0
    /\ dropped = [r \in Robots |-> {}]
    /\ dups = 0
    /\ ready_seen = [r \in Robots |-> {}]
    /\ barrier_seen = {}
    /\ injected = 0
    /\ ack_faults = {}
    /\ tally_input = <<>>
    /\ tally_result = None
    /\ tally_state = "idle"

\* The coordinated deployment alone: the robots of robot_sync.py and barrier.py.
NextCoordinated ==
    \/ \E r \in Robots : SyncNext(r)
    \/ BarrierNext

SpecResidue == InitResidue /\ [][NextCoordinated]_vars

\* Bus on which every message is delivered once and the broker may end a
\* robot's blocking wait.
NextCancel ==
    \/ NextOrder
    \/ \E r \in Robots : ConsumerCancelled(r)

SpecCancel == Init /\ [][NextCancel]_vars

\* ------------------------------ the coordinated robot's wait for the start
InitCoordinated ==
    /\ Init
    /\ variant = "sync"

\* The coordinated round on a bus that delivers every message exactly once,
\* where malformed messages reach the start queues and the broker may end a
\* robot's blocking wait.
NextStartWait ==
    \/ NextCoordinated
    \/ \E m \in Malformed : InjectStart(m)
    \/ \E r \in Robots : ConsumerCancelled(r)

SpecStartWait == InitCoordinated /\ [][NextStartWait]_vars

\* ------------------------------------- on_ready_message on its own
\* on_ready_message is applied to one delivery in a state of the barrier
\* module: every robot waits for the start, and either the barrier still
\* counts (fewer than swarm_size senders) or it has sent the start signal.
BarrierInputs == Malformed \cup {ReadyMsg(q) : q \in 1..(swarm_size + 1)}

InitOnReadyMessage ==
    /\ variant = "sync"
    /\ swarm_size \in SwarmSizes
    /\ proposal \in [Robots -> Proposals]
    /\ residue = <<>>
    /\ pc = [r \in Robots |-> "wait_start"]
    /\ ready_robots = [r \in Robots |-> {}]
    /\ received_proposals = [r \in Robots |-> <<>>]
    /\ received_from = [r \in Robots |-> <<>>]
    /\ final_decision = [r \in Robots |-> None]
    /\ start_signal_received = [r \in Robots |-> FALSE]
    /\ queue = [r \in Robots |-> <<>>]
    /\ bound = [r \in Robots |-> FALSE]
    /\ start_bound = [r \in Robots |-> TRUE]
    /\ \E m \in BarrierInputs : readiness_queue = <<m>>
    /\ barrier_pc = "consuming"
    /\ start_signal_sent \in BOOLEAN
    /\ IF start_signal_sent
       THEN /\ barrier_ready_robots = Robots
            /\ begin_pubs = 1
            /\ start_queue = [r \in Robots |-> <<StartMsg>>]
       ELSE /\ barrier_ready_robots \in SUBSET Robots
            /\ barrier_ready_robots # Robots
            /\ begin_pubs = 0
            /\ start_queue = [r \in Robots |-> <<>>]
    /\ barrier_seen = barrier_ready_robots
    /\ ready_pubs = [r \in Robots |-> 1]
    /\ prop_pubs = [r \in Robots |-> 0]
    /\ dropped = [r \in Robots |-> {}]
    /\ dups = 0
    /\ ready_seen = [r \in Robots |-> {}]
    /\ injected = 0
    /\ ack_faults = {}
    /\ tally_input = <<>>
    /\ tally_result = None
    /\ tally_state = "idle"

NextOnReadyMessage == OnReadyMessage

SpecOnReadyMessage == InitOnReadyMessage /\ [][NextOnReadyMessage]_vars

\* ------------------------------------------- the vote tally on its own
\* _process_results is applied to a list of proposals, whatever round
\* collected it: any list of at most MaxTallyLen values.
TallyValues == 1..NumTallyValues
TallyInputs == UNION {[1..n -> TallyValues] : n \in 0..MaxTallyLen}

InitTally ==
    /\ variant = "self"
    /\ swarm_size = 1
    /\ proposal = [r \in Robots |-> 1]
    /\ residue = <<>>
    /\ pc = [r \in Robots |-> "init"]
    /\ ready_robots = [r \in Robots |-> {}]
    /\ received_proposals = [r \in Robots |-> <<>>]
    /\ received_from = [r \in Robots |-> <<>>]
    /\ final_decision = [r \in Robots |-> None]
    /\ start_signal_received = [r \in Robots |-> FALSE]
    /\ queue = [r \in Robots |-> <<>>]
    /\ bound = [r \in Robots |-> FALSE]
    /\ start_queue = [r \in Robots |-> <<>>]
    /\ start_bound = [r \in Robots |-> FALSE]
    /\ readiness_queue = <<>>
    /\ barrier_pc = "init"
    /\ barrier_ready_robots = {}
    /\ start_signal_sent = FALSE
    /\ ready_pubs = [r \in Robots |-> 0]
    /\ prop_pubs = [r \in Robots |-> 0]
    /\ begin_pubs = 0
    /\ dropped = [r \in Robots |-> {}]
    /\ dups = 0
    /\ ready_seen = [r \in Robots |-> {}]
    /\ barrier_seen = {}
    /\ injected = 0
    /\ ack_faults = {}
    /\ tally_input \in TallyInputs
    /\ tally_result = None
    /\ tally_state = "idle"

\* The same proposals in another arrival order: two neighbours swapped.
Swapped(s, i) == [s EXCEPT ![i] = s[i + 1], ![i + 1] = s[i]]

\* _process_results applied to the list.
TallyCall ==
    /\ tally_state = "idle"
    /\ IF CannotDecide(tally_input, swarm_size)
       THEN /\ tally_state' = "raised"
            /\ UNCHANGED tally_result
       ELSE IF MaxRaises(tally_input)
       THEN /\ tally_state' = "crashed"
            /\ UNCHANGED tally_result
       ELSE /\ tally_result' = Tally(tally_input)
            /\ tally_state' = "returned"
    /\ UNCHANGED <<configVars, robotVars, busVars, barrierVars, ghostVars,
                   seenVars, injected, ack_faults, tally_input>>

\* _process_results applied again, to the same proposals in another order.
TallyCallReordered(i) ==
    /\ tally_state = "returned"
    /\ i \in 1..(Len(tally_input) - 1)
    /\ tally_input' = Swapped(tally_input, i)
    /\ tally_result' = Tally(tally_input')
    /\ UNCHANGED <<configVars, robotVars, busVars, barrierVars, ghostVars,
                   seenVars, injected, ack_faults, tally_state>>

NextTally ==
    \/ TallyCall
    \/ \E i \in 1..MaxTallyLen : TallyCallReordered(i)

SpecTally == InitTally /\ [][NextTally]_vars

\* ---------------------------------------------------------------- claims
HasPublishedProposal(r) == prop_pubs[r] > 0
HasEmittedReady(r) == ready_pubs[r] > 0
Senders(sq) == {sq[i] : i \in DOMAIN sq}
PendingProposals(q) == Cardinality({i \in DOMAIN q : q[i].type = "proposal"})

\* C1 (agreement): any two robots that reach "decided" in a round hold the
\* same final decision, whatever the delivery order and the repeated deliveries.
C1_Agreement ==
    \A a, b \in Robots :
        (pc[a] = "decided" /\ pc[b] = "decided") => final_decision[a] = final_decision[b]

\* C2 (barrier safety): a robot has published its proposal only if every robot
\* of the swarm has emitted its "ready" and the barrier the robot relies on has
\* counted swarm_size distinct senders (its own set, or the coordinator's set
\* together with the start broadcast).
C2_BarrierSafety ==
    \A r \in Robots :
        HasPublishedProposal(r) =>
            /\ \A q \in Robots : HasEmittedReady(q)
            /\ variant = "self" => Cardinality(ready_robots[r]) = swarm_size
            /\ variant = "sync" =>
                   /\ Cardinality(barrier_ready_robots) = swarm_size
                   /\ start_signal_sent
                   /\ begin_pubs > 0

\* C2 witness: in the coordinated variant a robot has published its proposal
\* while another robot has not yet left the readiness wait.
C2_Witness ==
    /\ variant = "sync"
    /\ \E r, q \in Robots : HasPublishedProposal(r) /\ pc[q] = "wait_start"

\* C2 witness for the self-counted variant (checked alongside).
C2_WitnessSelf ==
    /\ variant = "self"
    /\ \E r, q \in Robots : HasPublishedProposal(r) /\ pc[q] = "ready_sync"

\* C3 (self-counted barrier liveness): a robot still in the readiness loop can
\* still learn the "ready" of every peer it has not counted: that peer is still
\* announcing, or one of its "ready" messages waits in the robot's queue.
C3_LateJoinerLearnsEveryReady ==
    \A r, q \in Robots :
        (variant = "self" /\ pc[r] = "ready_sync" /\ q \notin ready_robots[r]) =>
            \/ pc[q] \in {"init", "ready_sync"}
            \/ ReadyMsg(q) \in Range(queue[r])

\* C4 (delivery-order independence, self-counted): whatever the order of the
\* deliveries, a robot that has not finished collecting can still reach
\* swarm_size proposals: those stored, those waiting in its queue and those
\* not yet published add up to at least swarm_size.
C4_CanStillCollectAll ==
    \A r \in Robots :
        (variant = "self" /\ pc[r] \in {"ready_sync", "exchange", "collect"}) =>
            Len(received_proposals[r]) + PendingProposals(queue[r])
                + Cardinality({q \in Robots : ~HasPublishedProposal(q)}) >= swarm_size

\* C5 (coordinated barrier liveness): whatever the start order, the consuming
\* coordinator can still count every robot: each robot is counted, has its
\* "ready" waiting in the readiness queue, or has not sent it yet.
C5_CoordinatorCanStillCountAll ==
    (variant = "sync" /\ barrier_pc = "consuming") =>
        \A q \in Robots :
            \/ q \in barrier_ready_robots
            \/ ReadyMsg(q) \in Range(readiness_queue)
            \/ ~HasEmittedReady(q)

\* C6 (one proposal per sender): the proposals a robot has collected come from
\* pairwise distinct senders.
C6_OneProposalPerSender ==
    \A r \in Robots : Cardinality(Senders(received_from[r])) = Len(received_from[r])

\* C7 (readiness dedup): after any sequence of handled "ready" messages the
\* size of the ready set equals the number of distinct senders handled and is
\* at most swarm_size, for every robot's own set and for the coordinator's set.
C7_ReadyDedup ==
    /\ \A r \in Robots :
          /\ Cardinality(ready_robots[r]) = Cardinality(ready_seen[r])
          /\ Cardinality(ready_robots[r]) <= swarm_size
    /\ Cardinality(barrier_ready_robots) = Cardinality(barrier_seen)
    /\ Cardinality(barrier_ready_robots) <= swarm_size

\* C7 witness: a robot in the readiness loop has published its "ready" twice
\* into its own bound queue and handled both copies (none is left waiting),
\* so it handled a sender it had already counted, and it counts one sender.
C7_Witness ==
    \E r \in Robots :
        /\ variant = "self"
        /\ pc[r] = "ready_sync"
        /\ ready_pubs[r] >= 2
        /\ ReadyMsg(r) \notin Range(queue[r])
        /\ ready_robots[r] = {r}

\* C7 witness for the coordinator (checked alongside): a repeated delivery of
\* a "ready" was handled and the sender is counted once.
C7_WitnessBarrier ==
    /\ variant = "sync"
    /\ dups > 0
    /\ barrier_pc = "consuming"
    /\ readiness_queue = <<>>
    /\ Cardinality(barrier_ready_robots) = 1
    /\ \A q \in Robots : pc[q] = "wait_start" => q \in barrier_ready_robots
    /\ \A q \in Robots : start_queue[q] = <<>> /\ queue[q] = <<>>

\* C8 (barrier exactness): the barrier is satisfied exactly once, at the step
\* in which the count of distinct senders first equals swarm_size: the
\* coordinator broadcasts the start and sets start_signal_sent in that step and
\* never again, start_signal_sent never reverts, and a self-counting robot
\* leaves the readiness loop in that step and never re-enters it.
LeftReadiness(r) == pc[r] \notin {"init", "ready_sync"}

C8_StatePart ==
    /\ begin_pubs <= 1
    /\ start_signal_sent <=> begin_pubs = 1
    /\ start_signal_sent <=>
           (barrier_pc # "init" /\ Cardinality(barrier_ready_robots) = swarm_size)
    /\ \A r \in Robots :
           variant = "self" =>
               (LeftReadiness(r) <=> Cardinality(ready_robots[r]) = swarm_size)

C8_ActionPart ==
    /\ start_signal_sent => start_signal_sent'
    /\ begin_pubs' # begin_pubs <=>
           /\ Cardinality(barrier_ready_robots) < swarm_size
           /\ Cardinality(barrier_ready_robots') = swarm_size
    /\ begin_pubs' # begin_pubs =>
           ~start_signal_sent /\ start_signal_sent' /\ begin_pubs' = begin_pubs + 1
    /\ \A r \in Robots :
           variant = "self" =>
               /\ (~LeftReadiness(r) /\ LeftReadiness(r)') <=>
                      /\ Cardinality(ready_robots[r]) < swarm_size
                      /\ Cardinality(ready_robots'[r]) = swarm_size
               /\ LeftReadiness(r) =>
                      LeftReadiness(r)' /\ ready_robots'[r] = ready_robots[r]

\* C8 (barrier exactness): the barrier opens exactly when the count first
\* equals swarm_size, once, and never closes again (state and step parts).
C8_BarrierExactness == [](C8_StatePart) /\ [][C8_ActionPart]_vars

\* C8 witness: the coordinator has broadcast the start and a further "ready"
\* is still waiting in the readiness queue.
C8_Witness ==
    /\ variant = "sync"
    /\ start_signal_sent
    /\ begin_pubs = 1
    /\ \E i \in DOMAIN readiness_queue : readiness_queue[i].type = "ready"

\* C8 witness for the self-counted variant (checked alongside): a robot has
\* left the readiness loop and a further "ready" waits in its queue.
C8_WitnessSelf ==
    \E r \in Robots :
        /\ variant = "self"
        /\ LeftReadiness(r)
        /\ \E i \in DOMAIN queue[r] : queue[r][i].type = "ready"

\* C9 (proposal cap): a robot never holds more than swarm_size proposals, and
\* once it holds swarm_size its list no longer changes.
C9_StatePart == \A r \in Robots : Len(received_proposals[r]) <= swarm_size

C9_ActionPart ==
    \A r \in Robots :
        Len(received_proposals[r]) = swarm_size =>
            received_proposals'[r] = received_proposals[r]

C10_DecisionGuard ==
    \A r \in Robots :
        final_decision[r] # None => Len(received_proposals[r]) = swarm_size

\* C11 (end-to-end validity): when every robot has decided, each decision is
\* the tally of the swarm's own proposals, one per robot.
C11_Validity ==
    (\A r \in Robots : pc[r] = "decided") =>
        \A r \in Robots : final_decision[r] = Tally(proposal)

\* C12 (tally determinism): tallying the same proposals in another arrival
\* order returns the same decision.
C12_TallyDeterminism ==
    [][(tally_state = "returned" /\ tally_state' = "returned") =>
           tally_result' = tally_result]_vars

\* C12 witness: a tie was tallied whose first-counted winner is not the
\* decision, so the arrival order and the decision differ.
C12_Witness ==
    /\ tally_state = "returned"
    /\ Len(Winners(tally_input)) > 1
    /\ Winners(tally_input)[1] # tally_result

\* C13 (tally correctness): the decision is a most frequent value, and the
\* smallest of the most frequent values.
C13_TallyCorrect ==
    tally_state = "returned" =>
        /\ tally_result \in Range(tally_input)
        /\ \A v \in TallyValues :
               /\ Count(tally_input, v) <= Count(tally_input, tally_result)
               /\ Count(tally_input, v) = Count(tally_input, tally_result) =>
                      tally_result <= v

\* C13 witness: the tie {1: 2, 2: 2, 3: 1} arrived with 2 first and the
\* decision is 1.
C13_Witness ==
    /\ tally_state = "returned"
    /\ tally_input[1] = 2
    /\ Count(tally_input, 1) = 2
    /\ Count(tally_input, 2) = 2
    /\ Count(tally_input, 3) = 1
    /\ tally_result = 1

\* C13 witness for a unique most frequent value (checked alongside):
\* {1: 3, 2: 2} gives 1.
C13_WitnessPlurality ==
    /\ tally_state = "returned"
    /\ Len(tally_input) = 5
    /\ Count(tally_input, 1) = 3
    /\ Count(tally_input, 2) = 2
    /\ tally_result = 1

\* C14 (tally on empty input): _process_results reached with an empty list
\* raises the insufficient-data error (the round is aborted) and leaves the
\* decision unset.
C14_EmptyTallyRefused ==
    [][\A r \in Robots :
          (pc[r] = "tally" /\ received_proposals[r] = <<>> /\ pc'[r] # "tally") =>
              (pc'[r] = "aborted" /\ final_decision'[r] = None)]_vars

\* C14 witness: a self-counting robot was refused a decision on an empty list.
C14_Witness ==
    \E r \in Robots :
        /\ variant = "self"
        /\ pc[r] = "aborted"
        /\ received_proposals[r] = <<>>
        /\ final_decision[r] = None

\* C14 witness for robot_sync.py (checked alongside): the robot had the start
\* signal, so the refusal is the one of _process_results.
C14_WitnessSync ==
    \E r \in Robots :
        /\ variant = "sync"
        /\ pc[r] = "aborted"
        /\ start_signal_received[r]
        /\ received_proposals[r] = <<>>
        /\ final_decision[r] = None

\* C15 (insufficient data): a robot whose proposal wait has ended with fewer
\* than swarm_size proposals is refused by _process_results: it is about to
\* abort or has aborted, and it holds no decision.
C15_InsufficientDataAborts ==
    \A r \in Robots :
        (pc[r] \in {"tally", "decided", "aborted", "crashed"}
            /\ prop_pubs[r] > 0
            /\ Len(received_proposals[r]) < swarm_size) =>
                (pc[r] \in {"tally", "aborted"} /\ final_decision[r] = None)

\* C16 (malformed-message resilience): a malformed message never ends a
\* robot's round with an unhandled error, and when every robot has decided
\* each decision is still the tally of the swarm's valid proposals.
C16_MalformedResilience ==
    /\ \A r \in Robots : pc[r] # "crashed"
    /\ (\A r \in Robots : pc[r] = "decided") =>
           \A r \in Robots : final_decision[r] = Tally(proposal)

\* C17 (acknowledgment): every handler invocation of a robot or of the barrier
\* has acknowledged its delivery exactly once.
C17_AckedExactlyOnce == ack_faults = {}

\* C18 (missing required fields): no message without robot_id is counted as a
\* ready sender or stored as a proposal, and no proposal without a value is
\* stored, by the robots and by the barrier.
C18_MissingFieldsDiscarded ==
    /\ None \notin barrier_ready_robots
    /\ \A r \in Robots :
          /\ None \notin ready_robots[r]
          /\ None \notin Range(received_from[r])
          /\ None \notin Range(received_proposals[r])

\* C19 (stale ready in the proposal exchange): a step in which a collecting
\* robot handles a "ready" acknowledges it and leaves the robot's ready set,
\* proposals, position and decision unchanged.
C19_StaleReadyDiscarded ==
    [][\A r \in Robots :
          (pc[r] = "collect" /\ queue[r] # <<>> /\ Head(queue[r]).type = "ready"
              /\ queue'[r] = Tail(queue[r])) =>
                  /\ ready_robots'[r] = ready_robots[r]
                  /\ received_proposals'[r] = received_proposals[r]
                  /\ pc'[r] = "collect"
                  /\ final_decision'[r] = final_decision[r]
                  /\ r \notin ack_faults']_vars

\* C19 witness: a self-counting robot of a swarm of 1 announced itself twice,
\* left the readiness loop on the first "ready", and while collecting has
\* handled the second one (no "ready" is left in its queue); it goes on
\* collecting.
C19_Witness ==
    /\ variant = "self"
    /\ swarm_size = 1
    /\ pc[1] = "collect"
    /\ ready_pubs[1] = 2
    /\ injected = 0
    /\ \A i \in DOMAIN queue[1] : queue[1][i].type # "ready"

\* C19 witness for robot_sync.py (checked alongside): the robot of a swarm of
\* 1 had a stray "ready" in its bound proposal queue and, while collecting,
\* has handled it; it goes on collecting.
C19_WitnessSync ==
    /\ variant = "sync"
    /\ swarm_size = 1
    /\ pc[1] = "collect"
    /\ injected = 1
    /\ \A i \in DOMAIN queue[1] : queue[1][i].type # "ready"

\* C20 (coordinator late signals): a step in which the barrier handles a
\* delivery after the start signal was sent acknowledges it, leaves the ready
\* set and the signal flag unchanged and broadcasts no further start.
C20_LateSignalIgnored ==
    [][(start_signal_sent /\ readiness_queue # <<>>
           /\ readiness_queue' = Tail(readiness_queue)) =>
               /\ barrier_ready_robots' = barrier_ready_robots
               /\ start_signal_sent'
               /\ begin_pubs' = begin_pubs
               /\ start_queue' = start_queue
               /\ None \notin ack_faults']_vars

\* C20 witness: on_ready_message has handled a delivery after the start
\* signal (the queue is drained and consumption was not stopped by this
\* invocation) and one start was broadcast in all.
C20_Witness ==
    /\ start_signal_sent
    /\ barrier_pc = "consuming"
    /\ readiness_queue = <<>>
    /\ begin_pubs = 1
    /\ barrier_ready_robots = Robots

\* C21 (coordinator stale residue): in a round that starts with "ready"
\* messages of a prior round on the readiness queue, the barrier counts a
\* robot only if that robot has signalled in this round, and the start is
\* broadcast only when every robot has signalled in this round.
C21_ResidueNotCounted ==
    /\ \A q \in barrier_ready_robots : q \in Robots /\ HasEmittedReady(q)
    /\ (begin_pubs > 0 \/ start_signal_sent) => \A q \in Robots : HasEmittedReady(q)

\* C21 witness: a round that started with residue on the queue has had its
\* start broadcast.
C21_Witness ==
    /\ residue # <<>>
    /\ barrier_pc = "stopped"
    /\ begin_pubs = 1
    /\ barrier_ready_robots = Robots

\* C22 (coordinated readiness step): a robot of robot_sync.py sends one
\* "ready" to the readiness queue, before it waits; it is past the wait and in
\* the proposal exchange only if it has handled the start signal the barrier
\* broadcast; ...
C22_StatePart ==
    \A r \in Robots :
        /\ ready_pubs[r] <= 1
        /\ pc[r] \notin {"init", "start_bound"} => ready_pubs[r] = 1
        /\ pc[r] \in {"exchange", "collect", "tally", "decided"} =>
               (start_signal_received[r] /\ begin_pubs > 0)

\* ... a step that handles any other message of the start queue leaves the
\* robot waiting, the "ready" is sent by the step that enters the wait, and a
\* wait that ended without the start signal ends the round as aborted.
C22_ActionPart ==
    \A r \in Robots :
        /\ (pc[r] = "wait_start" /\ start_queue[r] # <<>>
               /\ start_queue'[r] = Tail(start_queue[r])
               /\ Head(start_queue[r]).type # "start_voting") =>
                   (pc'[r] = "wait_start" /\ ~start_signal_received'[r])
        /\ (pc[r] = "wait_start" /\ pc'[r] # "wait_start") => pc'[r] = "after_wait"
        /\ (pc[r] = "after_wait" /\ pc'[r] # "after_wait") =>
               pc'[r] = (IF start_signal_received[r] THEN "exchange" ELSE "aborted")
        /\ ready_pubs'[r] # ready_pubs[r] =>
               /\ pc[r] = "start_bound" /\ pc'[r] = "wait_start"
               /\ readiness_queue' = Append(readiness_queue, ReadyMsg(r))

\* C22 (coordinated readiness step): the state and the step parts together.
C22_ReadinessStep == [](C22_StatePart) /\ [][C22_ActionPart]_vars

\* C22 witness: the waiting robot of a swarm of 1 has handled a malformed
\* message of its start queue and is still waiting.
C22_Witness ==
    /\ swarm_size = 1
    /\ pc[1] = "wait_start"
    /\ injected = 1
    /\ start_queue[1] = <<>>
    /\ ~start_signal_received[1]

\* C22 witness for the wait that ends without the start signal (checked
\* alongside): the robot has sent its "ready" and the round is aborted.
C22_WitnessAborted ==
    \E r \in Robots :
        /\ variant = "sync"
        /\ pc[r] = "aborted"
        /\ ~start_signal_received[r]
        /\ ready_pubs[r] = 1
        /\ prop_pubs[r] = 0

\* C23 (single proposal broadcast): a robot has published no proposal before
\* it enters the proposal exchange and exactly one once it has published and
\* collects, tallies or has decided; no robot ever publishes a second one; and
\* every proposal message in a queue carries the identity of a robot of the
\* swarm and that robot's own configured proposal.
C23_SingleProposalBroadcast ==
    /\ \A r \in Robots :
           /\ prop_pubs[r] <= 1
           /\ pc[r] \in {"init", "ready_sync", "start_bound", "wait_start",
                          "after_wait", "exchange"} => prop_pubs[r] = 0
           /\ pc[r] \in {"collect", "tally", "decided"} => prop_pubs[r] = 1
           /\ final_decision[r] # None => prop_pubs[r] = 1
    /\ \A q \in Robots : \A i \in 1..Len(queue[q]) :
           queue[q][i].type = "proposal" =>
               /\ queue[q][i].robot_id \in Robots
               /\ queue[q][i].proposal = proposal[queue[q][i].robot_id]
               /\ prop_pubs[queue[q][i].robot_id] = 1

\* C23 witness: in a swarm of 2 a robot has decided, has published once, and
\* its proposal message is in its peer's queue.
C23_Witness ==
    /\ swarm_size = 2
    /\ pc[1] = "decided"
    /\ prop_pubs[1] = 1
    /\ ProposalMsg(1, proposal[1]) \in Range(queue[2])

\* The phase of a robot, as a rank: Init, ReadinessSync, ProposalExchange,
\* and the two ends of a round, Decided and Aborted.
PhaseRank(r) ==
    CASE pc[r] = "init" -> 0
      [] pc[r] \in {"ready_sync", "start_bound", "wait_start", "after_wait"} -> 1
      [] pc[r] \in {"exchange", "collect", "tally"} -> 2
      [] pc[r] \in {"decided", "aborted", "crashed"} -> 3

\* C24 (phase monotonicity): no step takes a robot to an earlier phase, and a
\* robot that has decided or aborted stays as it is.
C24_PhaseMonotonic ==
    [][\A r \in Robots :
          /\ PhaseRank(r)' >= PhaseRank(r)
          /\ pc[r] \in {"decided", "aborted", "crashed"} =>
                 (pc'[r] = pc[r] /\ final_decision'[r] = final_decision[r])]_vars

\* C24 witness: one robot went through every phase and decided, and its peer
\* ended its round aborted out of the proposal exchange.
C24_Witness ==
    /\ swarm_size = 2
    /\ pc[1] = "decided"
    /\ pc[2] = "aborted"
    /\ prop_pubs[2] = 1

\* C25 (receivers bound before the decisive exchange): once any robot has
\* published its proposal, every robot of the swarm has its proposal queue
\* bound to the exchange.
C25_ReceiversBound ==
    (\E r \in Robots : prop_pubs[r] > 0) => \A q \in Robots : bound[q]

\* C25 for robot.py alone, where the queue is bound before the robot's "ready".
C25_ReceiversBoundSelf ==
    variant = "self" => C25_ReceiversBound

\* C25 failing state (checked alongside): in the coordinated variant a robot
\* has published its proposal while its peer has no queue bound;
\* the peer's queue never gets the message.
C25_PublishedBeforeBound ==
    /\ variant = "sync"
    /\ swarm_size = 2
    /\ prop_pubs[1] = 1
    /\ ~bound[2]
    /\ queue[2] = <<>>
    /\ begin_pubs = 1

\* C25 consequence (checked alongside): the late robot binds and collects
\* with its peer's proposal never delivered to it.
C25_PeerMissesProposal ==
    /\ variant = "sync"
    /\ swarm_size = 2
    /\ prop_pubs[1] = 1
    /\ pc[2] = "collect"
    /\ ProposalMsg(1, proposal[1]) \notin Range(queue[2])
    /\ received_proposals[2] = <<proposal[2]>>
    /\ queue[2] = <<>>

\* C26 (self-counting): in robot.py a robot's own "ready" is copied to its own
\* queue, where it stays until the robot counts it; a robot counts only robots
\* of the swarm; and a robot that has left the readiness loop has counted
\* itself and holds exactly swarm_size distinct identities.
C26_SelfCounting ==
    variant = "self" =>
        \A r \in Robots :
            /\ ready_robots[r] \subseteq Robots
            /\ (pc[r] = "ready_sync" /\ ready_pubs[r] > 0 /\ r \notin ready_robots[r]) =>
                   ReadyMsg(r) \in Range(queue[r])
            /\ LeftReadiness(r) =>
                   /\ r \in ready_robots[r]
                   /\ ready_robots[r] = Robots
                   /\ Cardinality(ready_robots[r]) = swarm_size

\* C26 witness: a swarm of 1 has counted itself after a single "ready" and
\* decided on its own proposal.
C26_Witness ==
    /\ variant = "self"
    /\ swarm_size = 1
    /\ ready_pubs[1] = 1
    /\ ready_robots[1] = {1}
    /\ pc[1] = "decided"
    /\ final_decision[1] = proposal[1]

\* C27 (decision validity): a decision that is set is one of the values in
\* the deciding robot's own received_proposals, and so the configured proposal
\* of some robot of the swarm.
C27_DecisionCollected ==
    \A r \in Robots :
        final_decision[r] # None =>
            /\ final_decision[r] \in Range(received_proposals[r])
            /\ \E q \in Robots : final_decision[r] = proposal[q]

\* C27 witness: a robot decided on a tie between two collected values, the
\* larger of which it collected first.
C27_Witness ==
    \E r \in Robots :
        /\ pc[r] = "decided"
        /\ received_proposals[r] = <<2, 1>>
        /\ final_decision[r] = 1

\* C27 for _process_results on its own (checked alongside, SpecTally): a
\* returned decision occurs in the list that was tallied.
C27_TallyInInput ==
    tally_state = "returned" => tally_result \in Range(tally_input)

====
